---- MODULE Spec2Model ----
(***************************************************************************)
(* Model of the autocomplete editor component (frontend/src/App.tsx):      *)
(* the React state of App, the debounce effect, fetchSuggestions with its  *)
(* two suspension points (await fetch, await response.json), the ping      *)
(* effect, and the keyboard and click handlers.                            *)
(*                                                                         *)
(* Texts are sequences of UTF-16 code units.  The selection index          *)
(* keeps the values JavaScript can produce for it: null, a number, NaN.    *)
(* Array indices are 0-based as in the source; Sequences are 1-based.      *)
(***************************************************************************)
EXTENDS Integers, Sequences, FiniteSets, TLC

VARIABLES text, suggestions, loading, error, systemPrompt, latency,
          selectedSuggestion, networkPingMs,
          timers, requests, ping, now, changedAt, lastEvent

vars == <<text, suggestions, loading, error, systemPrompt, latency,
          selectedSuggestion, networkPingMs,
          timers, requests, ping, now, changedAt, lastEvent>>

visible == <<text, suggestions, loading, error, systemPrompt, latency,
             selectedSuggestion, networkPingMs>>

(***************************************************************************)
(* Bounds of the exploration.                                              *)
(***************************************************************************)
\* The clock advances MaxTicks times at most.
MaxTicks == 4
\* Accepting a suggestion is explored while the text stays this short.
MaxTextLen == 2
\* The service returns at most this many suggestions.
MaxSuggestions == 2

(***************************************************************************)
(* Program constants.                                                      *)
(***************************************************************************)
\* setTimeout(..., 100)
DebounceMs == 100
\* Granularity of the modelled clock (performance.now()).
TickMs == DebounceMs \div 2

(***************************************************************************)
(* Values.                                                                 *)
(***************************************************************************)
\* JavaScript values are tagged records: null, numbers (NaN once x % 0 was
\* computed), strings (error messages), and the latency object.
Null == [tag |-> "null"]
NaN == [tag |-> "NaN"]
Num(i) == [tag |-> "num", val |-> i]
Message(m) == [tag |-> "string", val |-> m]

\* A text is a sequence of UTF-16 code units (32 is " ", 97 is "a", 98 is "b").
\* The code units String.prototype.trim strips: ECMAScript WhiteSpace (TAB,
\* VT, FF, SP, NBSP, ZWNBSP and the Unicode space separators) and
\* LineTerminator (LF, CR, LS, PS).
WhiteSpace ==
    {9, 10, 11, 12, 13, 32, 160, 5760} \cup (8192..8202)
        \cup {8232, 8233, 8239, 8287, 12288, 65279}
\* Values a user edit can put in the textarea.
EditTexts == {<<>>, <<32>>, <<97>>}
\* The initial system prompt and one other value of the prompt field.
DefaultPrompt ==
    "You are an autocomplete assistant. Your task is to suggest ONLY the next few words that would naturally complete the user's text. Do not add any additional context, explanations, or new sentences. Return only the continuation of the existing text. Keep suggestions concise and focused on completing the current thought."
Prompts == {DefaultPrompt, "Complete the text."}
\* Suggestion strings the service can return (the empty string included).
SuggestionStrings == {<<>>, <<98>>}
\* data.suggestions of a response.
SuggestionLists == UNION {[1..n -> SuggestionStrings] : n \in 0..MaxSuggestions}
\* data.server_processing_time_ms of a response.
ServerTimes == {TickMs}
\* err.message of the errors fetchSuggestions can catch.
FetchFailed == Message("Failed to fetch")
HttpError == Message("HTTP error! status: 500")
JsonError == Message("Unexpected token < in JSON at position 0")

(***************************************************************************)
(* Pure helpers.                                                           *)
(***************************************************************************)
RECURSIVE TrimStart(_)
TrimStart(s) ==
    IF s # <<>> /\ Head(s) \in WhiteSpace THEN TrimStart(Tail(s)) ELSE s

RECURSIVE TrimEnd(_)
TrimEnd(s) ==
    IF s # <<>> /\ s[Len(s)] \in WhiteSpace
    THEN TrimEnd(SubSeq(s, 1, Len(s) - 1))
    ELSE s

\* String.prototype.trim
Trim(s) == TrimEnd(TrimStart(s))

\* A variant of IsBlank that forgets trim(): only "" counts as empty.
IsBlankWithoutTrim(input) == input = <<>>

\* !input.trim()
IsBlank(input) == Trim(input) = <<>>

\* The JavaScript remainder a % n: NaN for n = 0, else the sign of a.
JsRem(a, n) ==
    IF n = 0 THEN NaN
    ELSE IF a >= 0 THEN Num(a % n)
    ELSE Num(-((-a) % n))

\* sel ?? 0
OrZero(sel) == IF sel = Null THEN Num(0) ELSE sel

\* list[idx] is a string (not undefined).
Defined(list, idx) ==
    /\ idx.tag = "num"
    /\ idx.val >= 0
    /\ idx.val < Len(list)

\* if (suggestion): the element exists and is not the empty string.
Truthy(list, idx) == Defined(list, idx) /\ list[idx.val + 1] # <<>>

(***************************************************************************)
(* State after the component has mounted: both effects have run once, so   *)
(* the first debounce timer is pending and the ping probe is dispatched.   *)
(* lastEvent (the last handler that ran, with the request or item it was   *)
(* about and the strings it delivered) and changedAt (the time of the last *)
(* change of text or systemPrompt) are history variables: no handler reads *)
(* them.                                                                   *)
(***************************************************************************)
Event(kind, id, data) == [kind |-> kind, id |-> id, data |-> data]

Timer(input, prompt, t) ==
    [deadline |-> t + DebounceMs, text |-> input, prompt |-> prompt]

\* A variant of ClearTimeout that leaves the previous timer pending.
ClearTimeoutSkipped(ts) == ts

\* The cleanup of the debounce effect: clearTimeout(timeoutId).
ClearTimeout(ts) == {}

\* The debounce effect, run when text or systemPrompt changed: the cleanup
\* of the previous run, then setTimeout for the new closure.
DebounceEffect(ts, input, prompt, t) ==
    ClearTimeout(ts) \cup {Timer(input, prompt, t)}

Init ==
    /\ text = <<>>
    /\ suggestions = <<>>
    /\ loading = FALSE
    /\ error = Null
    /\ systemPrompt = DefaultPrompt
    /\ latency = Null
    /\ selectedSuggestion = Null
    /\ networkPingMs = Null
    /\ timers = {Timer(<<>>, DefaultPrompt, 0)}
    /\ requests = <<>>
    /\ ping = [phase |-> "sent", start |-> 0]
    /\ now = 0
    /\ changedAt = 0
    /\ lastEvent = Event("mount", 0, <<>>)

(***************************************************************************)
(* Time passes (performance.now() and the timer clock).                    *)
(***************************************************************************)
Tick ==
    /\ now < MaxTicks * TickMs
    /\ now' = now + TickMs
    /\ UNCHANGED <<visible, timers, requests, ping, changedAt, lastEvent>>

(***************************************************************************)
(* handleTextChange and handleSystemPromptChange.  React fires onChange    *)
(* only for a value that differs from the current one.                     *)
(***************************************************************************)
\* A variant of handleTextChange that also dismisses the displayed list.
handleTextChangeDismisses(value) ==
    /\ value # text
    /\ text' = value
    /\ suggestions' = <<>>
    /\ selectedSuggestion' = Null
    /\ timers' = DebounceEffect(timers, value, systemPrompt, now)
    /\ changedAt' = now
    /\ lastEvent' = Event("edit", 0, <<>>)
    /\ UNCHANGED <<loading, error, systemPrompt, latency, networkPingMs,
                   requests, ping, now>>

handleTextChange(value) ==
    /\ value # text
    /\ text' = value
    /\ timers' = DebounceEffect(timers, value, systemPrompt, now)
    /\ changedAt' = now
    /\ lastEvent' = Event("edit", 0, <<>>)
    /\ UNCHANGED <<suggestions, loading, error, systemPrompt, latency,
                   selectedSuggestion, networkPingMs, requests, ping, now>>

handleSystemPromptChange(value) ==
    /\ value # systemPrompt
    /\ systemPrompt' = value
    /\ timers' = DebounceEffect(timers, text, value, now)
    /\ changedAt' = now
    /\ lastEvent' = Event("prompt", 0, <<>>)
    /\ UNCHANGED <<text, suggestions, loading, error, latency,
                   selectedSuggestion, networkPingMs, requests, ping, now>>

(***************************************************************************)
(* The debounce timer fires and runs fetchSuggestions(text) up to its      *)
(* first await.                                                            *)
(***************************************************************************)
Request(input, prompt, t) ==
    [text |-> input, prompt |-> prompt, start |-> t, phase |-> "fetch"]

\* A variant of TimerFire whose callback drops the request while an earlier
\* one is in flight.
TimerFireSkipsWhileLoading(t) ==
    /\ t \in timers
    /\ now >= t.deadline
    /\ timers' = timers \ {t}
    /\ IF IsBlank(t.text)
       THEN /\ suggestions' = <<>>
            /\ lastEvent' = Event("fire", 0, <<>>)
            /\ UNCHANGED <<loading, error, requests>>
       ELSE IF loading
       THEN /\ lastEvent' = Event("fire", 0, <<>>)
            /\ UNCHANGED <<suggestions, loading, error, requests>>
       ELSE /\ loading' = TRUE
            /\ error' = Null
            /\ requests' = Append(requests, Request(t.text, t.prompt, now))
            /\ lastEvent' = Event("fire", Len(requests) + 1, <<>>)
            /\ UNCHANGED suggestions
    /\ UNCHANGED <<text, systemPrompt, latency, selectedSuggestion,
                   networkPingMs, ping, now, changedAt>>

TimerFire(t) ==
    /\ t \in timers
    /\ now >= t.deadline
    /\ timers' = timers \ {t}
    /\ IF IsBlank(t.text)
       THEN /\ suggestions' = <<>>
            /\ lastEvent' = Event("fire", 0, <<>>)
            /\ UNCHANGED <<loading, error, requests>>
       ELSE /\ loading' = TRUE
            /\ error' = Null
            /\ requests' = Append(requests, Request(t.text, t.prompt, now))
            /\ lastEvent' = Event("fire", Len(requests) + 1, <<>>)
            /\ UNCHANGED suggestions
    /\ UNCHANGED <<text, systemPrompt, latency, selectedSuggestion,
                   networkPingMs, ping, now, changedAt>>

(***************************************************************************)
(* Resolutions of a request.                                               *)
(***************************************************************************)
\* A variant of Catch that sets the error and leaves the old list displayed.
CatchKeepsSuggestions(id, message) ==
    /\ error' = message
    /\ loading' = FALSE
    /\ requests' = [requests EXCEPT ![id].phase = "failed"]
    /\ lastEvent' = Event("failure", id, <<>>)
    /\ UNCHANGED <<text, suggestions, systemPrompt, latency,
                   selectedSuggestion, networkPingMs, timers, ping, now,
                   changedAt>>

\* A variant of Catch that schedules the fetch again after a failure.
CatchRetries(id, message) ==
    /\ error' = message
    /\ suggestions' = <<>>
    /\ loading' = FALSE
    /\ requests' = [requests EXCEPT ![id].phase = "failed"]
    /\ timers' = {Timer(text, systemPrompt, now)}
    /\ lastEvent' = Event("failure", id, <<>>)
    /\ UNCHANGED <<text, systemPrompt, latency, selectedSuggestion,
                   networkPingMs, ping, now, changedAt>>

\* catch (err) { setError(...); setSuggestions([]) } finally { setLoading(false) }
Catch(id, message) ==
    /\ error' = message
    /\ suggestions' = <<>>
    /\ loading' = FALSE
    /\ requests' = [requests EXCEPT ![id].phase = "failed"]
    /\ lastEvent' = Event("failure", id, <<>>)
    /\ UNCHANGED <<text, systemPrompt, latency, selectedSuggestion,
                   networkPingMs, timers, ping, now, changedAt>>

\* A variant of FetchRejects that can report a failure for a request whose
\* outcome was already delivered.
FetchRejectsAnyPhase(id) ==
    /\ id \in 1..Len(requests)
    /\ Catch(id, FetchFailed)

\* await fetch(...) rejects: the service was not reached.
FetchRejects(id) ==
    /\ id \in 1..Len(requests)
    /\ requests[id].phase = "fetch"
    /\ Catch(id, FetchFailed)

\* await fetch(...) resolves with a response; !response.ok throws.
FetchResponds(id, ok) ==
    /\ id \in 1..Len(requests)
    /\ requests[id].phase = "fetch"
    /\ IF ok
       THEN /\ requests' = [requests EXCEPT ![id].phase = "json"]
            /\ lastEvent' = Event("response", id, <<>>)
            /\ UNCHANGED <<visible, timers, ping, now, changedAt>>
       ELSE Catch(id, HttpError)

\* await response.json() rejects: the body is not JSON.
JsonRejects(id) ==
    /\ id \in 1..Len(requests)
    /\ requests[id].phase = "json"
    /\ Catch(id, JsonError)

\* A variant of Apply without the finally block.
ApplyKeepsLoading(id, data) ==
    /\ suggestions' = data.suggestions
    /\ latency' = [tag |-> "latency",
                   total |-> now - requests[id].start,
                   server |-> data.server_processing_time_ms]
    /\ requests' = [requests EXCEPT ![id].phase = "ok"]
    /\ lastEvent' = Event("success", id, data.suggestions)
    /\ UNCHANGED <<text, loading, error, systemPrompt, selectedSuggestion,
                   networkPingMs, timers, ping, now, changedAt>>

\* The statements after await response.json(), and the finally block.
Apply(id, data) ==
    /\ suggestions' = data.suggestions
    /\ latency' = [tag |-> "latency",
                   total |-> now - requests[id].start,
                   server |-> data.server_processing_time_ms]
    /\ loading' = FALSE
    /\ requests' = [requests EXCEPT ![id].phase = "ok"]
    /\ lastEvent' = Event("success", id, data.suggestions)
    /\ UNCHANGED <<text, error, systemPrompt, selectedSuggestion,
                   networkPingMs, timers, ping, now, changedAt>>

JsonResolves(id, data) ==
    /\ id \in 1..Len(requests)
    /\ requests[id].phase = "json"
    /\ Apply(id, data)

(***************************************************************************)
(* The ping effect, dispatched on mount.                                   *)
(***************************************************************************)
\* A variant of PingResolves that subtracts the wrong way round.
PingResolvesReversed ==
    /\ ping.phase = "sent"
    /\ networkPingMs' = Num(ping.start - now)
    /\ ping' = [ping EXCEPT !.phase = "done"]
    /\ lastEvent' = Event("pong", 0, <<>>)
    /\ UNCHANGED <<text, suggestions, loading, error, systemPrompt, latency,
                   selectedSuggestion, timers, requests, now, changedAt>>

PingResolves ==
    /\ ping.phase = "sent"
    /\ networkPingMs' = Num(now - ping.start)
    /\ ping' = [ping EXCEPT !.phase = "done"]
    /\ lastEvent' = Event("pong", 0, <<>>)
    /\ UNCHANGED <<text, suggestions, loading, error, systemPrompt, latency,
                   selectedSuggestion, timers, requests, now, changedAt>>

PingRejects ==
    /\ ping.phase = "sent"
    /\ networkPingMs' = Null
    /\ ping' = [ping EXCEPT !.phase = "done"]
    /\ lastEvent' = Event("pingfail", 0, <<>>)
    /\ UNCHANGED <<text, suggestions, loading, error, systemPrompt, latency,
                   selectedSuggestion, timers, requests, now, changedAt>>

(***************************************************************************)
(* handleKeyDown and the onClick of a suggestion item.                     *)
(***************************************************************************)
\* A variant of Accept whose text change does not re-run the debounce effect.
AcceptWithoutDebounce(chosen) ==
    /\ text' = text \o chosen
    /\ suggestions' = <<>>
    /\ selectedSuggestion' = Null
    /\ UNCHANGED <<timers, changedAt>>

\* The Tab branch: if (suggestion) { setText; setSuggestions([]); setSelectedSuggestion(null) }
Accept(chosen) ==
    /\ text' = text \o chosen
    /\ suggestions' = <<>>
    /\ selectedSuggestion' = Null
    /\ IF text \o chosen # text
       THEN /\ timers' = DebounceEffect(timers, text \o chosen, systemPrompt, now)
            /\ changedAt' = now
       ELSE UNCHANGED <<timers, changedAt>>

\* A variant of KeyTab that resets the selection even when nothing is accepted.
KeyTabAlwaysResets ==
    /\ LET idx == OrZero(selectedSuggestion)
       IN IF Len(suggestions) > 0 /\ Truthy(suggestions, idx)
          THEN /\ Len(text) + Len(suggestions[idx.val + 1]) <= MaxTextLen
               /\ Accept(suggestions[idx.val + 1])
               /\ lastEvent' = Event("tab", 0, suggestions[idx.val + 1])
          ELSE /\ selectedSuggestion' = Null
               /\ UNCHANGED <<text, suggestions, timers, changedAt>>
               /\ lastEvent' = Event("tab", 0, <<>>)
    /\ UNCHANGED <<loading, error, systemPrompt, latency, networkPingMs,
                   requests, ping, now>>

KeyTab ==
    /\ LET idx == OrZero(selectedSuggestion)
       IN IF Len(suggestions) > 0 /\ Truthy(suggestions, idx)
          THEN /\ Len(text) + Len(suggestions[idx.val + 1]) <= MaxTextLen
               /\ Accept(suggestions[idx.val + 1])
               /\ lastEvent' = Event("tab", 0, suggestions[idx.val + 1])
          ELSE /\ UNCHANGED <<text, suggestions, selectedSuggestion, timers,
                              changedAt>>
               /\ lastEvent' = Event("tab", 0, <<>>)
    /\ UNCHANGED <<loading, error, systemPrompt, latency, networkPingMs,
                   requests, ping, now>>

\* prev === null ? 0 : (prev + 1) % suggestions.length
ArrowDown(prev, n) ==
    IF prev = Null THEN Num(0)
    ELSE IF prev = NaN THEN NaN
    ELSE JsRem(prev.val + 1, n)

\* A variant of ArrowUp that forgets to add the length before the remainder.
ArrowUpWithoutWrap(prev, n) ==
    IF prev = Null THEN Num(n - 1)
    ELSE IF prev = NaN THEN NaN
    ELSE JsRem(prev.val - 1, n)

\* prev === null ? suggestions.length - 1 : (prev - 1 + suggestions.length) % suggestions.length
ArrowUp(prev, n) ==
    IF prev = Null THEN Num(n - 1)
    ELSE IF prev = NaN THEN NaN
    ELSE JsRem(prev.val - 1 + n, n)

KeyArrowDown ==
    /\ selectedSuggestion' = ArrowDown(selectedSuggestion, Len(suggestions))
    /\ lastEvent' = Event("down", 0, <<>>)
    /\ UNCHANGED <<text, suggestions, loading, error, systemPrompt, latency,
                   networkPingMs, timers, requests, ping, now, changedAt>>

KeyArrowUp ==
    /\ selectedSuggestion' = ArrowUp(selectedSuggestion, Len(suggestions))
    /\ lastEvent' = Event("up", 0, <<>>)
    /\ UNCHANGED <<text, suggestions, loading, error, systemPrompt, latency,
                   networkPingMs, timers, requests, ping, now, changedAt>>

\* A variant of ClickSuggestion that accepts the highlighted item, as Tab does.
ClickAcceptsSelection(j) ==
    /\ j \in 0..(Len(suggestions) - 1)
    /\ LET idx == OrZero(selectedSuggestion)
       IN /\ Truthy(suggestions, idx)
          /\ Len(text) + Len(suggestions[idx.val + 1]) <= MaxTextLen
          /\ Accept(suggestions[idx.val + 1])
          /\ lastEvent' = Event("click", j, suggestions[idx.val + 1])
    /\ UNCHANGED <<loading, error, systemPrompt, latency, networkPingMs,
                   requests, ping, now>>

\* onClick of item j (0-based) of the rendered list.
ClickSuggestion(j) ==
    /\ j \in 0..(Len(suggestions) - 1)
    /\ Len(text) + Len(suggestions[j + 1]) <= MaxTextLen
    /\ Accept(suggestions[j + 1])
    /\ lastEvent' = Event("click", j, suggestions[j + 1])
    /\ UNCHANGED <<loading, error, systemPrompt, latency, networkPingMs,
                   requests, ping, now>>

(***************************************************************************)
(* The specification.                                                      *)
(***************************************************************************)
Responses ==
    [suggestions : SuggestionLists, server_processing_time_ms : ServerTimes]

Next ==
    \/ Tick
    \/ \E value \in EditTexts : handleTextChange(value)
    \/ \E value \in Prompts : handleSystemPromptChange(value)
    \/ \E t \in timers : TimerFire(t)
    \/ \E id \in 1..Len(requests) : FetchRejects(id)
    \/ \E id \in 1..Len(requests), ok \in BOOLEAN : FetchResponds(id, ok)
    \/ \E id \in 1..Len(requests) : JsonRejects(id)
    \/ \E id \in 1..Len(requests), data \in Responses : JsonResolves(id, data)
    \/ KeyTab
    \/ KeyArrowDown
    \/ KeyArrowUp
    \/ \E j \in 0..(MaxSuggestions - 1) : ClickSuggestion(j)

\* The editor while the ping probe is unanswered.
Spec == Init /\ [][Next]_vars

\* The editor and the answers to the ping probe.
NextPing ==
    \/ Next
    \/ PingResolves
    \/ PingRejects

SpecPing == Init /\ [][NextPing]_vars

(***************************************************************************)
(* Vocabulary of the claims.                                               *)
(***************************************************************************)
\* The number of requests issued so far; request ids count from 1 in issue
\* order, so this is also the id of the most recently issued request.
issued == Len(requests)

Resolved(id) == requests[id].phase \in {"ok", "failed"}

\* The step is the run of a handler whose event kind is k (time did not pass).
StepOf(k) == now' = now /\ lastEvent'.kind = k

\* Every character of s is white space (s may be empty).
WhitespaceOnly(s) == \A i \in 1..Len(s) : s[i] \in WhiteSpace

\* The selection is null or an index of the list.
InRange(sel, list) ==
    \/ sel = Null
    \/ sel.tag = "num" /\ sel.val >= 0 /\ sel.val < Len(list)

(***************************************************************************)
(* C1: the suggestion list is only ever set from the response of the most  *)
(* recently issued request; in particular the response of a request is     *)
(* never applied after a later-issued request has already resolved.        *)
(* Stated of the state an applied response leaves.                         *)
(***************************************************************************)
C1_StaleResponseNeverApplied ==
    lastEvent.kind = "success" =>
        \A later \in (lastEvent.id + 1)..issued : ~Resolved(later)

(***************************************************************************)
(* C2: a burst of text or prompt changes issues one request, no earlier    *)
(* than DebounceMs after its last change, with the text and prompt current *)
(* at that moment, and none for an intermediate text.  In every state at   *)
(* most one timer is pending, it belongs to the last change (its deadline  *)
(* is that change's time plus DebounceMs) and it holds the current text    *)
(* and prompt; a change leaves such a timer pending; and a step that       *)
(* issues a request issues exactly one, from a timer that is due, for the  *)
(* current text and prompt, and leaves no timer pending.  Conversely, a    *)
(* timer that is due on a text that is not whitespace-only can fire and    *)
(* issue a request, and every firing on such a text does issue exactly     *)
(* one request, whatever else is in flight; a firing on a whitespace-only  *)
(* text issues none.                                                       *)
(***************************************************************************)
C2_PendingTimer ==
    /\ Cardinality(timers) <= 1
    /\ \A t \in timers :
          /\ t.deadline = changedAt + DebounceMs
          /\ t.text = text
          /\ t.prompt = systemPrompt
    /\ lastEvent.kind \in {"edit", "prompt"} => timers # {}
    /\ (timers # {} /\ now >= changedAt + DebounceMs /\ ~WhitespaceOnly(text))
          => ENABLED (Next /\ issued' = issued + 1)

C2_Fire ==
    StepOf("fire") =>
        /\ timers # {}
        /\ now >= changedAt + DebounceMs
        /\ timers' = {}
        /\ issued' = IF WhitespaceOnly(text) THEN issued ELSE issued + 1

C2_Issue ==
    issued' # issued =>
        /\ issued' = issued + 1
        /\ SubSeq(requests', 1, issued) = requests
        /\ now >= changedAt + DebounceMs
        /\ requests'[issued'].start = now
        /\ requests'[issued'].text = text
        /\ requests'[issued'].prompt = systemPrompt
        /\ ~WhitespaceOnly(text)
        /\ timers # {}
        /\ timers' = {}

\* C2: trailing-edit-wins debounce: the pending timer is always the one of
\* the last change and can fire once it is due, every firing issues the one
\* request of its burst (C2_Fire), and requests are issued only as C2_Issue
\* describes.
C2_TrailingEditWins ==
    []C2_PendingTimer /\ [][C2_Fire /\ C2_Issue]_vars

\* The first request is issued for a text and a prompt that both differ from
\* the initial ones, DebounceMs after a change made TickMs after mounting:
\* the timer set on mount and the timer of the first change were discarded.
C2_Witness ==
    /\ lastEvent.kind = "fire"
    /\ issued = 1
    /\ requests[1].text = <<97>>
    /\ requests[1].prompt # DefaultPrompt
    /\ requests[1].start = TickMs + DebounceMs
    /\ changedAt = TickMs

(***************************************************************************)
(* C3: when the debounce timer fires while the text is empty or            *)
(* whitespace-only, the suggestion list becomes empty, no request is       *)
(* issued and the error state (like loading) is left as it was.            *)
(***************************************************************************)
C3_EmptyInput ==
    [][(StepOf("fire") /\ WhitespaceOnly(text)) =>
          /\ suggestions' = <<>>
          /\ requests' = requests
          /\ error' = error
          /\ loading' = loading]_vars

\* The timer has fired on a text of one space while an earlier request was
\* still in flight.
C3_Witness ==
    /\ lastEvent.kind = "fire"
    /\ text = <<32>>
    /\ suggestions = <<>>
    /\ issued = 1
    /\ ~Resolved(1)

(***************************************************************************)
(* C4: in every reachable state the selection index is null or an integer  *)
(* i with 0 <= i < Len(suggestions).                                       *)
(***************************************************************************)
C4_SelectionInRange == InRange(selectedSuggestion, suggestions)

(***************************************************************************)
(* C5: every replacement of the suggestion list (a successful response, a  *)
(* failure, an empty input, an accept) leaves the selection index null.    *)
(***************************************************************************)
C5_ReplacementResetsSelection ==
    (\/ lastEvent.kind \in {"success", "failure", "click"}
     \/ lastEvent.kind = "fire" /\ lastEvent.id = 0
     \/ lastEvent.kind = "tab" /\ lastEvent.data # <<>>)
    => selectedSuggestion = Null

(***************************************************************************)
(* C6: with a non-empty suggestion list, Tab appends to the text the       *)
(* suggestion at the selected index (index 0 when nothing is selected),    *)
(* clears the list and resets the selection.                               *)
(***************************************************************************)
C6_TabAccepts ==
    [][(StepOf("tab") /\ Len(suggestions) > 0) =>
          LET idx == IF selectedSuggestion = Null
                     THEN Num(0)
                     ELSE selectedSuggestion
          IN /\ InRange(idx, suggestions)
             /\ text' = text \o suggestions[idx.val + 1]
             /\ suggestions' = <<>>
             /\ selectedSuggestion' = Null]_vars

(***************************************************************************)
(* C7: when the most recently issued request fails, the failure leaves the *)
(* text unchanged, the error state non-null, the suggestion list empty and *)
(* loading false.                                                          *)
(***************************************************************************)
C7_LatestFailure ==
    [][(StepOf("failure") /\ lastEvent'.id = issued) =>
          /\ text' = text
          /\ error' # Null
          /\ suggestions' = <<>>
          /\ loading' = FALSE]_vars

\* The second of two requests has failed while the first one's suggestions
\* had been displayed.
C7_Witness ==
    /\ lastEvent.kind = "failure"
    /\ lastEvent.id = issued
    /\ issued = 2
    /\ requests[1].phase = "ok"
    /\ latency # Null
    /\ error # Null
    /\ suggestions = <<>>

(***************************************************************************)
(* C8: immediately after the most recently issued request resolves         *)
(* successfully, error is null, the suggestion list is that response's     *)
(* suggestions and loading is false, whatever earlier requests did.        *)
(***************************************************************************)
C8_LatestSuccess ==
    (lastEvent.kind = "success" /\ lastEvent.id = issued) =>
        /\ error = Null
        /\ suggestions = lastEvent.data
        /\ loading = FALSE

(***************************************************************************)
(* C9: loading is true exactly when the most recently issued request has   *)
(* not yet resolved.                                                       *)
(***************************************************************************)
C9_LoadingTracksLatest ==
    loading <=> (issued > 0 /\ ~Resolved(issued))

(***************************************************************************)
(* C10: the failure of a request that a later-issued request has           *)
(* superseded leaves error, the suggestion list and loading unchanged.     *)
(***************************************************************************)
C10_StaleFailureIgnored ==
    [][(StepOf("failure") /\ lastEvent'.id < issued) =>
          UNCHANGED <<error, suggestions, loading>>]_vars

(***************************************************************************)
(* C11: with a list of length n > 0, ArrowDown takes the unselected state  *)
(* to index 0 and index i to (i+1) mod n, ArrowUp takes the unselected     *)
(* state to index n-1 and index i to (i-1+n) mod n, and neither key        *)
(* changes the text or the list.  Stated for every numeric selection the   *)
(* program can hold (NaN is not an index); % below is the mathematical     *)
(* modulus.                                                                *)
(***************************************************************************)
C11_ArrowNavigation ==
    [][LET n == Len(suggestions)
           i == selectedSuggestion
       IN (n > 0 /\ i # NaN) =>
            /\ StepOf("down") =>
                 /\ selectedSuggestion' =
                       IF i = Null THEN Num(0) ELSE Num((i.val + 1) % n)
                 /\ UNCHANGED <<text, suggestions>>
            /\ StepOf("up") =>
                 /\ selectedSuggestion' =
                       IF i = Null THEN Num(n - 1)
                       ELSE Num((i.val - 1 + n) % n)
                 /\ UNCHANGED <<text, suggestions>>]_vars

\* ArrowUp has left the last item of a two-item list selected.
C11_Witness ==
    /\ lastEvent.kind = "up"
    /\ Len(suggestions) = 2
    /\ selectedSuggestion = Num(1)

(***************************************************************************)
(* C12: with an empty suggestion list ArrowDown and ArrowUp are no-ops:    *)
(* the selection index, the list and the text are unchanged.               *)
(***************************************************************************)
C12_ArrowsOnEmptyList ==
    [][((StepOf("down") \/ StepOf("up")) /\ Len(suggestions) = 0) =>
          UNCHANGED <<selectedSuggestion, suggestions, text>>]_vars

(***************************************************************************)
(* C13: clicking item j of the displayed list accepts item j whatever the  *)
(* selection is: text' = text + suggestions[j], the list is cleared and    *)
(* the selection is null.                                                  *)
(***************************************************************************)
C13_ClickAccepts ==
    [][StepOf("click") =>
          LET j == lastEvent'.id
          IN /\ j \in 0..(Len(suggestions) - 1)
             /\ text' = text \o suggestions[j + 1]
             /\ suggestions' = <<>>
             /\ selectedSuggestion' = Null]_vars

\* The second item, "b", was clicked and appended to "a"; the first item of
\* that list was the empty string.
C13_Witness ==
    /\ lastEvent.kind = "click"
    /\ lastEvent.id = 1
    /\ lastEvent.data = <<98>>
    /\ text = <<97, 98>>
    /\ suggestions = <<>>
    /\ \E id \in 1..issued : requests[id].phase = "ok"

(***************************************************************************)
(* C14: Tab on an empty suggestion list is a no-op: text, list, selection, *)
(* loading and error are unchanged, and no request is scheduled or issued. *)
(***************************************************************************)
C14_TabOnEmptyList ==
    [][(StepOf("tab") /\ Len(suggestions) = 0) =>
          UNCHANGED <<text, suggestions, selectedSuggestion, loading, error,
                      timers, requests>>]_vars

\* Tab was pressed on an empty list while an index was selected and a
\* request was in flight.
C14_Witness ==
    /\ lastEvent.kind = "tab"
    /\ lastEvent.data = <<>>
    /\ suggestions = <<>>
    /\ selectedSuggestion = Num(0)
    /\ loading

(***************************************************************************)
(* C15: the ping probe is independent of the suggestion fetches.  Its      *)
(* measurement is the time between dispatch (on mount) and acknowledgment  *)
(* and is never negative; the acknowledgment and the failure of the probe  *)
(* change nothing but the measurement; no other event changes the          *)
(* measurement.                                                            *)
(***************************************************************************)
C15_PingValue ==
    /\ networkPingMs = Null \/ (networkPingMs.tag = "num" /\ networkPingMs.val >= 0)
    /\ ping.phase = "sent" => networkPingMs = Null

C15_PingStep ==
    /\ StepOf("pong") =>
          /\ ping.phase = "sent"
          /\ networkPingMs' = Num(now - ping.start)
    /\ StepOf("pingfail") =>
          /\ ping.phase = "sent"
          /\ networkPingMs' = Null
    /\ (StepOf("pong") \/ StepOf("pingfail")) =>
          UNCHANGED <<text, suggestions, selectedSuggestion, loading, error,
                      systemPrompt, latency, timers, requests>>
    /\ lastEvent'.kind \notin {"pong", "pingfail"} =>
          UNCHANGED <<networkPingMs, ping>>

\* C15: the measurement is well-formed in every state and every step
\* respects the separation of the probe from the fetches.
C15_PingIndependent == []C15_PingValue /\ [][C15_PingStep]_vars

\* The probe was acknowledged while a suggestion request was in flight.
C15_Witness ==
    /\ lastEvent.kind = "pong"
    /\ networkPingMs = Num(now)
    /\ now >= DebounceMs
    /\ issued >= 1
    /\ ~Resolved(issued)
    /\ loading

(***************************************************************************)
(* C16: the resolution of each issued request is delivered exactly once,   *)
(* independently of the other requests: a delivery is for a request not    *)
(* yet resolved, marks it resolved as a success or as a failure, and       *)
(* leaves the other requests alone; a resolved request stays as it is.     *)
(***************************************************************************)
C16_DeliveredOnce ==
    [][/\ issued' >= issued
       /\ \A id \in 1..issued :
            /\ Resolved(id) => requests'[id] = requests[id]
            /\ (StepOf("success") /\ lastEvent'.id = id) =>
                  /\ ~Resolved(id)
                  /\ requests'[id].phase = "ok"
                  /\ \A other \in 1..issued \ {id} :
                        requests'[other] = requests[other]
            /\ (StepOf("failure") /\ lastEvent'.id = id) =>
                  /\ ~Resolved(id)
                  /\ requests'[id].phase = "failed"
                  /\ \A other \in 1..issued \ {id} :
                        requests'[other] = requests[other]]_vars

\* Two requests, resolved out of order with different outcomes: the first
\* failed after the second had succeeded.
C16_Witness ==
    /\ issued = 2
    /\ requests[2].phase = "ok"
    /\ requests[1].phase = "failed"
    /\ lastEvent.kind = "failure"
    /\ lastEvent.id = 1

(***************************************************************************)
(* C17: no automatic retry.  A request is issued only by a debounce timer  *)
(* firing, and only when text or prompt changed since the previous request *)
(* was issued (since mounting, for the first), so each request has a       *)
(* change of its own and the requests never outnumber the changes; while   *)
(* no change has followed the latest request, no timer is pending.  (At    *)
(* its issue the last change lies at least DebounceMs back, so changedAt   *)
(* >= start tells that a change followed the request.)                     *)
(***************************************************************************)
C17_NoTimerWithoutChange ==
    (issued > 0 /\ changedAt + DebounceMs <= requests[issued].start)
        => timers = {}

C17_IssueNeedsChange ==
    issued' > issued =>
        /\ StepOf("fire")
        /\ timers # {}
        /\ issued = 0 => <<text, systemPrompt>> # <<<<>>, DefaultPrompt>>
        /\ issued > 0 => changedAt >= requests[issued].start

\* C17: no request without a timer fired after a change of its own.
C17_NoRetry == []C17_NoTimerWithoutChange /\ [][C17_IssueNeedsChange]_vars

\* The only request failed, a debounce duration has passed since it was
\* issued, and nothing was issued or scheduled again.
C17_Witness ==
    /\ issued = 1
    /\ requests[1].phase = "failed"
    /\ lastEvent.kind = "failure"
    /\ now >= requests[1].start + DebounceMs
    /\ timers = {}

(***************************************************************************)
(* C18 as stated: accepting a suggestion issues no request at that moment  *)
(* and restarts the debounce timer for the appended text.                  *)
(***************************************************************************)
AcceptStep ==
    \/ StepOf("click")
    \/ StepOf("tab") /\ lastEvent'.data # <<>>

C18_AcceptRestartsTimer ==
    [][AcceptStep =>
          /\ requests' = requests
          /\ timers' = {Timer(text', systemPrompt, now)}
          /\ changedAt' = now]_vars

(***************************************************************************)
(* C18 as amended: accepting a suggestion issues no request at that        *)
(* moment; when the accepted suggestion is a non-empty string the text     *)
(* change restarts the debounce timer, and if no further event follows and *)
(* the text is not whitespace-only, the firing of that timer issues        *)
(* exactly one request, for the appended text, no earlier than DebounceMs  *)
(* after the accept; accepting an empty string (by click) changes neither  *)
(* the text nor the timer.                                                 *)
(***************************************************************************)
C18_AcceptThenDebounce ==
    [][/\ AcceptStep =>
            LET chosen == lastEvent'.data
            IN /\ requests' = requests
               /\ text' = text \o chosen
               /\ IF chosen # <<>>
                  THEN /\ timers' = {Timer(text', systemPrompt, now)}
                       /\ changedAt' = now
                  ELSE UNCHANGED <<timers, changedAt, text>>
       /\ (/\ StepOf("fire")
           /\ lastEvent.kind \in {"tab", "click"}
           /\ lastEvent.data # <<>>
           /\ ~WhitespaceOnly(text)) =>
            /\ issued' = issued + 1
            /\ requests'[issued'].text = text
            /\ requests'[issued'].prompt = systemPrompt
            /\ requests'[issued'].start = now
            /\ now >= changedAt + DebounceMs
            /\ timers' = {}]_vars

\* The request for "ab" was issued a debounce duration after "b" was
\* accepted onto "a".
C18_Witness ==
    /\ lastEvent.kind = "fire"
    /\ lastEvent.id = issued
    /\ issued = 2
    /\ requests[2].text = <<97, 98>>
    /\ requests[2].start = changedAt + DebounceMs

(***************************************************************************)
(* C19: a direct text edit replaces the text and restarts the debounce     *)
(* timer, and at that moment leaves the selection index, the suggestion    *)
(* list, loading and error unchanged (and issues no request).              *)
(***************************************************************************)
C19_EditFrame ==
    [][StepOf("edit") =>
          /\ text' # text
          /\ text' \in EditTexts
          /\ timers' = {Timer(text', systemPrompt, now)}
          /\ UNCHANGED <<selectedSuggestion, suggestions, loading, error,
                         requests>>]_vars

\* The text was edited while two suggestions were displayed, the second one
\* selected, and a request was in flight.
C19_Witness ==
    /\ lastEvent.kind = "edit"
    /\ Len(suggestions) = 2
    /\ selectedSuggestion = Num(1)
    /\ loading
    /\ timers # {}

(***************************************************************************)
(* C20: loading is never stuck on: in every reachable state loading = true *)
(* implies that some issued request has not resolved yet (so once every    *)
(* request has resolved, loading is false).                                *)
(***************************************************************************)
C20_LoadingNotStuck ==
    loading => \E id \in 1..issued : ~Resolved(id)

\* loading is on for the second request after the first one has resolved.
C20_Witness ==
    /\ loading
    /\ issued = 2
    /\ Resolved(1)
    /\ ~Resolved(2)

====
